---- MODULE Spec2Model ----
(***************************************************************************)
(* Model of the interactive sign-in exchange of the Cognito auth provider: *)
(* signInWithSRP and the process-wide sign-in store it writes.             *)
(*                                                                         *)
(* JavaScript runs each callback to completion: a call only yields at its  *)
(* await (the remote SRP exchange).  The code between two awaits is split  *)
(* into program positions (pc) so that the order of the store writes       *)
(* inside one callback can be stated, and no other call is scheduled while *)
(* some call is between two positions of the same callback (Quiescent).    *)
(***************************************************************************)
EXTENDS Integers, FiniteSets, Sequences, TLC

\* ------------------------------------------------------------- bounds
\* number of signIn invocations that may be in flight on one client
NumCalls == 2
\* number of distinct continuation tokens the service hands out
MaxToken == 2

\* number of requests a route handler may be serving at once
NumRequests == 2
\* number of times the route handler factory is built
NumFactories == 2
\* longest campaign list the messaging service returns
MaxCampaigns == 2

Calls == 1..NumCalls
Requests == 1..NumRequests
Factories == 1..NumFactories
Tokens == 1..MaxToken

\* ------------------------------------------------------------- values
Undefined == "undefined"
\* a Session field: a continuation token, or 0 when the field is missing
SessionValues == 0..MaxToken

Usernames == {"", "alice", "bob"}
Passwords == {"", "pw"}

KnownChallenges == {"MfaCode", "NewPasswordRequired"}
Challenges == KnownChallenges \cup {"UnheardOfChallenge"}

\* ChallengeParameters: the keys present in the parameter bag
ParamBags == {{"destination"}, {"destination", "requiredAttributes"}}

\* InitiateAuth / RespondToAuthChallenge output as destructured by signInWithSRP
Responses ==
    { r \in [ChallengeName : Challenges \cup {Undefined},
             ChallengeParameters : ParamBags \cup {{}},
             AuthenticationResult : BOOLEAN,
             Session : SessionValues] :
        /\ (r.ChallengeName = Undefined) = (r.ChallengeParameters = {})
        /\ (r.ChallengeName # Undefined /\ ~r.AuthenticationResult) => r.Session # 0 }

\* errors the awaited exchange can reject with
ServiceErrorNames ==
    {"PasswordResetRequiredException", "UserNotConfirmedException",
     "NotAuthorizedException"}
RejectionNames == ServiceErrorNames \cup {"Error"}

NoRequest == [username |-> Undefined, password |-> Undefined]
NoResponse == [none |-> TRUE]
NoError == [none |-> TRUE]
NoResult == [kind |-> "none"]
Absent == [present |-> FALSE]

Throw(e) == [kind |-> "throw", error |-> e]
Return(v) == [kind |-> "return", value |-> v]

ValidationError(code) == [type |-> "validation", name |-> code]
RemoteError(n) == [type |-> "remote", name |-> n]

VARIABLES pc, req, resp, err, result, nreq, store

\* History of the store, kept to state what concurrent calls do to each other:
\* rivals is the set of calls that were suspended at their await when the
\* call whose session is stored returned its challenge step (empty once the
\* store is written again); clobbered says that the last step was the
\* resumption of such a rival, which wrote or cleaned the store.
VARIABLES rivals, clobbered

vars == <<pc, req, resp, err, result, nreq, store, rivals, clobbered>>

\* in-app messaging, syncMessages: where the call is, whether the endpoint
\* cache holds an endpoint id, the campaigns fetched, the key-value storage,
\* the collaborator calls of the current invocation, and how the call ended
VARIABLES syncPc, endpointCached, messages, storage, syncCalls, syncResult

syncVars == <<syncPc, endpointCached, messages, storage, syncCalls, syncResult>>

\* storage, downloadData: where the job is, its input, the identity id of the
\* session, the input handed to getObject, and the item returned
VARIABLES dlPc, dlInput, dlIdentityId, getObjectInput, dlResult

dlVars == <<dlPc, dlInput, dlIdentityId, getObjectInput, dlResult>>

\* DefaultAmplify.configure: the core singleton's libraryOptions and
\* resourcesConfig, the cognitoUserPoolsTokenProvider singleton, and a record
\* of the latest call (its arguments, what it handed to the core, what it
\* did to the token provider)
VARIABLES libraryOptions, resourcesConfig, tokenProvider, lastConfigure

cfgVars == <<libraryOptions, resourcesConfig, tokenProvider, lastConfigure>>

\* adapter-nextjs, handleRequest: per request, where it is, its arguments,
\* the router handlers invoked for it, and what the returned promise
\* settled with
VARIABLES routePc, routeArgs, routeInvoked, routeResult

routeVars == <<routePc, routeArgs, routeInvoked, routeResult>>

\* adapter-nextjs, createAuthRouteHandlersFactory: the AMPLIFY_APP_ORIGIN
\* entry of process.env and, per call of the factory, the origin it read,
\* the config it was given and what it returned or threw
VARIABLES appOrigin, factoryArgs, factoryResult

factoryVars == <<appOrigin, factoryArgs, factoryResult>>

allVars == <<vars, syncVars, dlVars, cfgVars, routeVars, factoryVars>>

\* ------------------------------------------------- collaborators
\* signInStore: one slot, replaced as a whole by a set, emptied by a clean
SetActiveSignInState(state) == state
CleanActiveSignInState == Absent

\* the parameter keys a challenge kind hands on to the caller
RelevantKeys(name) ==
    IF name = "MfaCode" THEN {"destination"}
    ELSE IF name = "NewPasswordRequired" THEN {"requiredAttributes"}
    ELSE {}

UnrecognizedChallengeError ==
    [type |-> "auth", name |-> "UnrecognizedChallengeError"]

\* Result Translator: a recognized challenge becomes the caller's next step,
\* anything else is thrown
GetSignInResult(challengeName, challengeParameters) ==
    IF challengeName \in KnownChallenges
    THEN Return([isSignedIn |-> FALSE,
                 nextStep |-> [signInStep |-> challengeName,
                               additionalInfo |->
                                   challengeParameters \cap RelevantKeys(challengeName)]])
    ELSE Throw(UnrecognizedChallengeError)

\* Error Classifier: the remote conditions that are themselves a next step
GetSignInResultFromError(name) ==
    IF name = "PasswordResetRequiredException"
    THEN [isSignedIn |-> FALSE, nextStep |-> [signInStep |-> "RESET_PASSWORD"]]
    ELSE IF name = "UserNotConfirmedException"
    THEN [isSignedIn |-> FALSE, nextStep |-> [signInStep |-> "CONFIRM_SIGN_UP"]]
    ELSE [undefined |-> TRUE]

\* assertServiceError: a plain Error is no service error
IsServiceError(error) == error.name # "Error"
UnknownError == [type |-> "auth", name |-> "Unknown"]

\* ------------------------------------------------- signInWithSRP, by parts
\* a variant that forgets the password check
ValidationFailure_UsernameOnly(username, password) ==
    IF username = "" THEN "EmptySignInUsername" ELSE "none"

\* lines 52-59: the two assertValidationError calls, in order
ValidationFailure(username, password) ==
    IF username = "" THEN "EmptySignInUsername"
    ELSE IF password = "" THEN "EmptySignInPassword"
    ELSE "none"

\* a variant that merges into the stored session instead of replacing it
ActiveSignInState_Merged(r, username) ==
    [present |-> TRUE,
     signInSession |-> r.Session,
     username |-> IF store.present THEN store.username ELSE username,
     challengeName |-> r.ChallengeName]

\* a variant that forgets the continuation token
ActiveSignInState_NoSession(r, username) ==
    [present |-> TRUE,
     signInSession |-> 0,
     username |-> username,
     challengeName |-> r.ChallengeName]

\* lines 70-74: the object handed to setActiveSignInState
ActiveSignInState(r, username) ==
    [present |-> TRUE,
     signInSession |-> r.Session,
     username |-> username,
     challengeName |-> r.ChallengeName]

\* variants that leave the clean out
StoreOnTokens_Skip(s) == s
StoreOnCatch_Skip(s, error) == s
\* a variant with lines 90 and 91 swapped: an error that is no service error
\* leaves the catch block before the clean
StoreOnCatch_AssertFirst(s, error) ==
    IF IsServiceError(error) THEN CleanActiveSignInState ELSE s
\* a variant with the validation inside the try block: its catch cleans
StoreOnValidationFailure_Clean(s) == CleanActiveSignInState

\* line 77: the store after the tokens branch
StoreOnTokens(s) == CleanActiveSignInState

\* lines 89-90: the store after the first statement of the catch block,
\* whatever was caught
StoreOnCatch(s, error) == CleanActiveSignInState

\* lines 52-59 sit before the try: a validation failure leaves the store alone
StoreOnValidationFailure(s) == s

\* lines 78-81
DoneResult == [isSignedIn |-> TRUE, nextStep |-> [signInStep |-> "DONE"]]

\* a variant that hands an unrecognized challenge on as a next step
TryOutcome_FailOpen(r) ==
    IF r.AuthenticationResult
    THEN Return(DoneResult)
    ELSE Return([isSignedIn |-> FALSE,
                 nextStep |-> [signInStep |-> r.ChallengeName,
                               additionalInfo |->
                                   r.ChallengeParameters
                                       \cap RelevantKeys(r.ChallengeName)]])

\* a variant that looks at the challenge name before the tokens
TryOutcome_ChallengeFirst(r) ==
    IF r.ChallengeName \in KnownChallenges
    THEN GetSignInResult(r.ChallengeName, r.ChallengeParameters)
    ELSE IF r.AuthenticationResult THEN Return(DoneResult)
    ELSE GetSignInResult(r.ChallengeName, r.ChallengeParameters)

\* lines 75-88: what the try block ends with once the store is set
TryOutcome(r) ==
    IF r.AuthenticationResult
    THEN Return(DoneResult)
    ELSE GetSignInResult(r.ChallengeName, r.ChallengeParameters)

\* a variant that never maps an error to a result
CatchOutcome_AlwaysThrow(error) ==
    IF ~IsServiceError(error) THEN Throw(UnknownError) ELSE Throw(error)

\* lines 91-94: what the catch block ends with once the store is cleaned
CatchOutcome(error) ==
    IF ~IsServiceError(error) THEN Throw(UnknownError)
    ELSE IF GetSignInResultFromError(error.name) # [undefined |-> TRUE]
    THEN Return(GetSignInResultFromError(error.name))
    ELSE Throw(error)

\* ------------------------------------------------- state machine
\* pc: "idle" (never invoked), "awaiting" (suspended at line 67), "stateSet"
\* (line 74 done, line 75 next), "classify" (in the catch block, line 90
\* done, line 91 next), "done" (returned or thrown; result holds the outcome).
\* req, resp and err are the call's locals; resp and err die with the call.
TypeOK ==
    /\ pc \in [Calls -> {"idle", "awaiting", "stateSet", "classify", "done"}]
    /\ nreq \in [Calls -> 0..1]
    /\ store = Absent \/ store.present
    /\ rivals \subseteq Calls
    /\ clobbered \in BOOLEAN

\* ------------------------------------------------- initial states
\* nothing synced yet: no endpoint id cached, nothing in storage
SyncInit ==
    /\ syncPc = "idle"
    /\ endpointCached = FALSE
    /\ messages = <<>>
    /\ storage = [present |-> FALSE]
    /\ syncCalls = [updateEndpoint |-> 0, getInAppMessages |-> 0, setItem |-> 0]
    /\ syncResult = NoResult

\* no download asked for yet
DlInit ==
    /\ dlPc = "idle"
    /\ dlInput = [kind |-> "none"]
    /\ dlIdentityId = Undefined
    /\ getObjectInput = [called |-> FALSE]
    /\ dlResult = NoResult

\* Amplify not configured yet
CfgInit ==
    /\ libraryOptions = [Auth |-> [key |-> "absent"], ssr |-> Undefined]
    /\ resourcesConfig = [Auth |-> Undefined]
    /\ tokenProvider = [authConfig |-> Undefined, keyValueStorage |-> Undefined]
    /\ lastConfigure = [called |-> FALSE]

\* no request received yet
RouteInit ==
    /\ routePc = [r \in Requests |-> "idle"]
    /\ routeArgs = [r \in Requests |-> [request |-> Undefined,
                                        contextOrResponse |-> Undefined]]
    /\ routeInvoked = [r \in Requests |-> {}]
    /\ routeResult = [r \in Requests |-> NoResult]

SignInInit ==
    /\ pc = [c \in Calls |-> "idle"]
    /\ req = [c \in Calls |-> NoRequest]
    /\ resp = [c \in Calls |-> NoResponse]
    /\ err = [c \in Calls |-> NoError]
    /\ result = [c \in Calls |-> NoResult]
    /\ nreq = [c \in Calls |-> 0]
    /\ store = Absent
    /\ rivals = {}
    /\ clobbered = FALSE

\* AMPLIFY_APP_ORIGIN not set, createAuthRouteHandlersFactory not called yet
FactoryInit ==
    /\ appOrigin = [set |-> FALSE]
    /\ factoryArgs = [f \in Factories |-> [called |-> FALSE]]
    /\ factoryResult = [f \in Factories |-> NoResult]

Init ==
    SignInInit /\ SyncInit /\ DlInit /\ CfgInit /\ RouteInit /\ FactoryInit

\* no call is in the middle of a callback
Quiescent == \A c \in Calls : pc[c] \in {"idle", "awaiting", "done"}

\* lines 44-67: a caller invokes signIn; validation, then the request goes out
SignIn(c, username, password) ==
    /\ Quiescent
    /\ pc[c] \in {"idle", "done"}
    /\ req' = [req EXCEPT ![c] = [username |-> username, password |-> password]]
    /\ IF ValidationFailure(username, password) # "none"
       THEN /\ pc' = [pc EXCEPT ![c] = "done"]
            /\ result' = [result EXCEPT ![c] =
                   Throw(ValidationError(ValidationFailure(username, password)))]
            /\ nreq' = [nreq EXCEPT ![c] = 0]
            /\ store' = StoreOnValidationFailure(store)
       ELSE /\ pc' = [pc EXCEPT ![c] = "awaiting"]
            /\ result' = [result EXCEPT ![c] = NoResult]
            /\ nreq' = [nreq EXCEPT ![c] = 1]
            /\ UNCHANGED store
    /\ clobbered' = FALSE
    /\ UNCHANGED <<resp, err, rivals>>
    /\ UNCHANGED <<syncVars, dlVars, cfgVars, routeVars, factoryVars>>

\* lines 62-74: the awaited exchange resolves; the store is set
ServiceResponds(c, r) ==
    /\ Quiescent
    /\ pc[c] = "awaiting"
    /\ resp' = [resp EXCEPT ![c] = r]
    /\ store' = SetActiveSignInState(ActiveSignInState(r, req[c].username))
    /\ pc' = [pc EXCEPT ![c] = "stateSet"]
    /\ rivals' = {}
    /\ clobbered' = (c \in rivals)
    /\ UNCHANGED <<req, err, result, nreq>>
    /\ UNCHANGED <<syncVars, dlVars, cfgVars, routeVars, factoryVars>>

\* a variant that sends the request again after a first rejection
ServiceFails_Retry(c, e) ==
    /\ Quiescent
    /\ pc[c] = "awaiting"
    /\ nreq[c] < 2
    /\ nreq' = [nreq EXCEPT ![c] = nreq[c] + 1]
    /\ clobbered' = FALSE
    /\ UNCHANGED <<pc, req, resp, err, result, store, rivals>>
    /\ UNCHANGED <<syncVars, dlVars, cfgVars, routeVars, factoryVars>>

\* lines 67, 89-90: the awaited exchange rejects; the catch block starts and
\* cleans the store
ServiceFails(c, e) ==
    /\ Quiescent
    /\ pc[c] = "awaiting"
    /\ err' = [err EXCEPT ![c] = e]
    /\ store' = StoreOnCatch(store, e)
    /\ pc' = [pc EXCEPT ![c] = "classify"]
    /\ rivals' = {}
    /\ clobbered' = (c \in rivals)
    /\ UNCHANGED <<req, resp, result, nreq>>
    /\ UNCHANGED <<syncVars, dlVars, cfgVars, routeVars, factoryVars>>

\* lines 75-90: tokens, a next step, or a throw into the catch block, which
\* starts and cleans the store
FinishTry(c) ==
    /\ pc[c] = "stateSet"
    /\ IF TryOutcome(resp[c]).kind = "throw"
       THEN /\ err' = [err EXCEPT ![c] = TryOutcome(resp[c]).error]
            /\ store' = StoreOnCatch(store, TryOutcome(resp[c]).error)
            /\ pc' = [pc EXCEPT ![c] = "classify"]
            /\ rivals' = {}
            /\ UNCHANGED result
       ELSE /\ result' = [result EXCEPT ![c] = TryOutcome(resp[c])]
            /\ pc' = [pc EXCEPT ![c] = "done"]
            /\ store' = IF resp[c].AuthenticationResult
                        THEN StoreOnTokens(store) ELSE store
            /\ rivals' = IF resp[c].AuthenticationResult THEN {}
                         ELSE {d \in Calls \ {c} : pc[d] = "awaiting"}
            /\ UNCHANGED err
    /\ resp' = [resp EXCEPT ![c] = NoResponse]
    /\ clobbered' = FALSE
    /\ UNCHANGED <<req, nreq>>
    /\ UNCHANGED <<syncVars, dlVars, cfgVars, routeVars, factoryVars>>

\* lines 91-94
CatchClassify(c) ==
    /\ pc[c] = "classify"
    /\ result' = [result EXCEPT ![c] = CatchOutcome(err[c])]
    /\ pc' = [pc EXCEPT ![c] = "done"]
    /\ err' = [err EXCEPT ![c] = NoError]
    /\ clobbered' = FALSE
    /\ UNCHANGED <<req, resp, nreq, store, rivals>>
    /\ UNCHANGED <<syncVars, dlVars, cfgVars, routeVars, factoryVars>>

Next ==
    \/ \E c \in Calls, u \in Usernames, p \in Passwords : SignIn(c, u, p)
    \/ \E c \in Calls, r \in Responses : ServiceResponds(c, r)
    \/ \E c \in Calls, n \in RejectionNames : ServiceFails(c, RemoteError(n))
    \/ \E c \in Calls : FinishTry(c)
    \/ \E c \in Calls : CatchClassify(c)

Spec == Init /\ [][Next]_vars

\* ------------------------------------------------- properties
\* call c ends in this step (returns or throws)
Ends(c) == pc'[c] = "done" /\ <<pc[c], result[c]>> # <<pc'[c], result'[c]>>

IsChallengeStep(res) ==
    /\ res.kind = "return"
    /\ res.value.nextStep.signInStep \in KnownChallenges

\* C1: whenever a signIn call ends with tokens (DONE) or ends out of its catch
\* block (an error of the try block, mapped to a result or thrown on), the
\* store is absent in the state the call ends in.
C1_TerminalClearsSession ==
    [][\A c \in Calls :
          (Ends(c) /\ (pc[c] = "classify" \/ result'[c] = Return(DoneResult)))
              => store' = Absent]_vars

\* a call ended signed in after another call had ended with a pending challenge
C1_Witness ==
    \E c, d \in Calls :
        /\ c # d
        /\ pc[c] = "done" /\ result[c] = Return(DoneResult)
        /\ pc[d] = "done" /\ IsChallengeStep(result[d])
        /\ store = Absent

\* C2: a call given an empty username or an empty password has ended with the
\* validation error of the first empty field (username before password) and
\* has sent no request.
C2_EmptyInputFailsWithoutRequest ==
    \A c \in Calls :
        (pc[c] # "idle" /\ (req[c].username = "" \/ req[c].password = ""))
            => /\ pc[c] = "done"
               /\ nreq[c] = 0
               /\ result[c] = Throw(ValidationError(
                      IF req[c].username = "" THEN "EmptySignInUsername"
                      ELSE "EmptySignInPassword"))

C2_Witness ==
    \E c, d \in Calls :
        /\ c # d
        /\ pc[c] = "done" /\ req[c].username = "" /\ nreq[c] = 0
        /\ pc[d] = "done" /\ req[d].username # "" /\ req[d].password = ""
        /\ result[d].error.name = "EmptySignInPassword"

\* C3: a step in which a call ends with a validation error leaves the store
\* as it was.
C3_ValidationFailureKeepsSession ==
    [][\A c \in Calls :
          (Ends(c) /\ result'[c].kind = "throw"
                   /\ result'[c].error.type = "validation")
              => store' = store]_vars

\* a session awaiting its challenge response is still stored after another
\* call failed validation
C3_Witness ==
    \E c, d \in Calls :
        /\ c # d
        /\ pc[c] = "done" /\ result[c].kind = "throw"
        /\ result[c].error.type = "validation"
        /\ pc[d] = "done" /\ IsChallengeStep(result[d])
        /\ store.present
        /\ store.username = req[d].username
        /\ store.challengeName = result[d].value.nextStep.signInStep

\* C4: when a response arrives while a session is stored, the store becomes
\* exactly the new call's session (token, username, challenge of the new
\* response), and it is still exactly that when the call ends with a pending
\* challenge.
C4_SecondSessionReplacesFirst ==
    [][\A c \in Calls :
          /\ (pc[c] = "awaiting" /\ pc'[c] = "stateSet" /\ store.present)
                => store' = [present |-> TRUE,
                             signInSession |-> resp'[c].Session,
                             username |-> req[c].username,
                             challengeName |-> resp'[c].ChallengeName]
          /\ (pc[c] = "stateSet" /\ Ends(c) /\ IsChallengeStep(result'[c]))
                => store' = store]_vars

\* two calls ended with different pending challenges for different users; the
\* store holds the session of one of them only
C4_Witness ==
    \E c, d \in Calls :
        /\ c # d
        /\ pc[c] = "done" /\ IsChallengeStep(result[c])
        /\ pc[d] = "done" /\ IsChallengeStep(result[d])
        /\ req[c].username # req[d].username
        /\ result[c].value.nextStep.signInStep # result[d].value.nextStep.signInStep
        /\ store.present
        /\ store.username = req[c].username
        /\ store.challengeName = result[c].value.nextStep.signInStep

\* C5: a response with an unrecognized challenge name and no tokens never
\* makes the call return: the call goes into its catch block with the
\* unrecognized-challenge error, and ends throwing that error with the store
\* absent.
C5_UnknownChallengeFailsClosed ==
    [][\A c \in Calls :
          /\ (pc[c] = "stateSet" /\ pc'[c] # pc[c]
                /\ ~resp[c].AuthenticationResult
                /\ resp[c].ChallengeName \notin KnownChallenges)
                => (pc'[c] = "classify" /\ err'[c] = UnrecognizedChallengeError)
          /\ (pc[c] = "classify" /\ Ends(c) /\ err[c] = UnrecognizedChallengeError)
                => (result'[c] = Throw(UnrecognizedChallengeError)
                      /\ store' = Absent)]_vars

C5_Witness ==
    \E c \in Calls :
        /\ pc[c] = "done"
        /\ result[c] = Throw(UnrecognizedChallengeError)
        /\ store = Absent

\* C6 as claimed: no reachable state has the store holding the session of a
\* call whose response carried tokens.
C6_NoDoneSessionEverStored ==
    \A c \in Calls :
        (pc[c] = "stateSet" /\ resp[c].AuthenticationResult)
            => store # ActiveSignInState(resp[c], req[c].username)

\* C6 as amended: whenever no call is in the middle of a callback, the store
\* holds no session without a pending challenge.
C6_NoDoneSessionBetweenCallbacks ==
    Quiescent => ~(store.present /\ store.challengeName = Undefined)

\* a call whose response carried tokens is done, and no callback is running
C6_Witness ==
    \E c \in Calls :
        /\ Quiescent
        /\ pc[c] = "done" /\ result[c] = Return(DoneResult)
        /\ store = Absent

\* C7: when the catch block is about to classify the error (line 91), the
\* store is already absent, whatever the error is.
C7_ClearBeforeClassify ==
    \A c \in Calls : pc[c] = "classify" => store = Absent

\* about to classify an error that is no service error, after another call
\* had ended with a pending challenge
C7_Witness ==
    \E c, d \in Calls :
        /\ c # d
        /\ pc[c] = "classify" /\ err[c].name = "Error"
        /\ pc[d] = "done" /\ IsChallengeStep(result[d])
        /\ store = Absent

\* C8: a call that ends out of its catch block with a service error returns
\* the mapped result when the error name maps to one, and throws the very
\* error it caught otherwise; the store is absent in both cases.
C8_MappedOrRethrown ==
    [][\A c \in Calls :
          (pc[c] = "classify" /\ Ends(c) /\ IsServiceError(err[c]))
              => /\ store' = Absent
                 /\ IF err[c].name \in
                        {"PasswordResetRequiredException", "UserNotConfirmedException"}
                    THEN /\ result'[c].kind = "return"
                         /\ result'[c].value = GetSignInResultFromError(err[c].name)
                         /\ ~result'[c].value.isSignedIn
                    ELSE result'[c] = Throw(err[c])]_vars

C8_Witness ==
    \E c, d \in Calls :
        /\ pc[c] = "done" /\ pc[d] = "done"
        /\ result[c].kind = "return"
        /\ result[c].value.nextStep.signInStep = "RESET_PASSWORD"
        /\ result[d] = Throw(RemoteError("NotAuthorizedException"))
        /\ store = Absent

\* C9: a call ends with {isSignedIn: true, DONE} exactly when it ends from
\* the try block with a response that carries tokens; when it returns from the
\* try block on a response without tokens, the result is not signed in and its
\* next step is the response's challenge with the parameters of that
\* challenge kind.
C9_DoneIffTokens ==
    [][\A c \in Calls :
          Ends(c) =>
            /\ (result'[c] = Return(DoneResult))
                  = (pc[c] = "stateSet" /\ resp[c].AuthenticationResult)
            /\ (pc[c] = "stateSet" /\ ~resp[c].AuthenticationResult)
                  => /\ result'[c].kind = "return"
                     /\ ~result'[c].value.isSignedIn
                     /\ result'[c].value.nextStep.signInStep = resp[c].ChallengeName
                     /\ result'[c].value.nextStep.additionalInfo
                            = resp[c].ChallengeParameters
                                \cap RelevantKeys(resp[c].ChallengeName)]_vars

C9_Witness ==
    \E c, d \in Calls :
        /\ pc[c] = "done" /\ result[c] = Return(DoneResult)
        /\ pc[d] = "done" /\ IsChallengeStep(result[d])
        /\ result[d].value.nextStep.additionalInfo = {"requiredAttributes"}

\* C10: the step a call takes out of "stateSet" on a response with a
\* recognized challenge and no tokens ends the call with that challenge as
\* the next step, and the store then holds the response's Session, the
\* caller's username and the response's challenge name.
C10_ChallengePersistsSession ==
    [][\A c \in Calls :
          (pc[c] = "stateSet" /\ pc'[c] # pc[c]
              /\ ~resp[c].AuthenticationResult
              /\ resp[c].ChallengeName \in KnownChallenges)
              => /\ pc'[c] = "done"
                 /\ IsChallengeStep(result'[c])
                 /\ store'.present
                 /\ store'.signInSession = resp[c].Session
                 /\ store'.username = req[c].username
                 /\ store'.challengeName = resp[c].ChallengeName]_vars

C10_Witness ==
    \E c \in Calls :
        /\ pc[c] = "done" /\ IsChallengeStep(result[c])
        /\ store.present
        /\ store.signInSession \in Tokens
        /\ store.username = req[c].username
        /\ store.challengeName = result[c].value.nextStep.signInStep

\* C11: nothing guards the store against a concurrent call. Whenever a call
\* that was suspended at its await while another call returned its challenge
\* step (its session is the stored one) resumes, the stored session is
\* replaced by the resuming call's own or cleaned, and the step is a clobber.
C11_RivalCompletionClobbers ==
    [][\A c \in Calls :
          (c \in rivals /\ pc[c] = "awaiting" /\ pc'[c] # "awaiting")
              => /\ store.present
                 /\ store.signInSession \in Tokens
                 /\ clobbered'
                 /\ \/ store' = Absent
                    \/ /\ pc'[c] = "stateSet"
                       /\ store' = ActiveSignInState(resp'[c], req[c].username)]_vars

\* one call ended with a pending challenge while the other was in flight, and
\* the other's rejected exchange has just cleaned the first one's session
C11_Witness ==
    \E c, d \in Calls :
        /\ c # d
        /\ clobbered
        /\ pc[d] = "done" /\ IsChallengeStep(result[d])
        /\ pc[c] = "classify"
        /\ store = Absent

\* C12: one invocation sends at most one request, and a call is suspended at
\* the await of handleUserSRPAuthFlow only by a step that is an invocation by
\* the caller (from "idle" or "done"), never by a step of a call that failed.
C12_NoAutomaticRetry ==
    [][\A c \in Calls :
          /\ nreq'[c] <= 1
          /\ nreq'[c] # nreq[c] => pc[c] \in {"idle", "done"}
          /\ (pc'[c] = "awaiting" /\ pc[c] # "awaiting")
                => pc[c] \in {"idle", "done"}]_vars

\* a call failed after its one request, and nothing of it is in flight
C12_Witness ==
    \E c \in Calls :
        /\ pc[c] = "done"
        /\ result[c] = Throw(RemoteError("NotAuthorizedException"))
        /\ nreq[c] = 1

\* ================================================= syncMessages
\* The implementation is not among the sources; it is modelled after what
\* its tests (syncMessages.test.ts) set up and expect.

CampaignIds == {"campaign-a", "campaign-b"}

RECURSIVE ListsUpTo(_)
ListsUpTo(n) ==
    IF n = 0 THEN {<<>>}
    ELSE ListsUpTo(n - 1)
           \cup {Append(l, x) : l \in {m \in ListsUpTo(n - 1) : Len(m) = n - 1},
                                x \in CampaignIds}

\* InAppMessagesResponse.InAppMessageCampaigns as the service may return it
CampaignLists == ListsUpTo(MaxCampaigns)

\* JSON.stringify of a list, as the sequence of its tokens
RECURSIVE JsonItems(_)
JsonItems(list) ==
    IF list = <<>> THEN <<>>
    ELSE IF Len(list) = 1 THEN <<Head(list)>>
    ELSE <<Head(list), ",">> \o JsonItems(Tail(list))

JsonStringify(list) == <<"[">> \o JsonItems(list) \o <<"]">>

\* the storage key: the Pinpoint key prefix followed by STORAGE_KEY_SUFFIX
StorageKey == <<"PINPOINT_KEY_PREFIX", "STORAGE_KEY_SUFFIX">>

StringContaining(key, part) == \E i \in 1..Len(key) : key[i] = part

InAppMessagingError(name) == [type |-> "InAppMessagingError", name |-> name]
Resolve == [kind |-> "resolve"]
Reject(e) == [kind |-> "reject", error |-> e]

NoSyncCalls == [updateEndpoint |-> 0, getInAppMessages |-> 0, setItem |-> 0]

\* a variant that fetches the messages without an endpoint id
SyncStart_NoEndpointNeeded ==
    /\ syncPc \in {"idle", "done"}
    /\ syncPc' = "fetching"
    /\ syncCalls' = [NoSyncCalls EXCEPT !.getInAppMessages = 1]
    /\ messages' = <<>>
    /\ syncResult' = NoResult
    /\ UNCHANGED <<endpointCached, storage>>
    /\ UNCHANGED <<vars, dlVars, cfgVars, routeVars, factoryVars>>

\* syncMessages is called: the cached endpoint id is looked up; with one the
\* messages are requested, without one the endpoint is updated first
SyncStart ==
    /\ syncPc \in {"idle", "done"}
    /\ IF endpointCached
       THEN /\ syncPc' = "fetching"
            /\ syncCalls' = [NoSyncCalls EXCEPT !.getInAppMessages = 1]
       ELSE /\ syncPc' = "updating"
            /\ syncCalls' = [NoSyncCalls EXCEPT !.updateEndpoint = 1]
    /\ messages' = <<>>
    /\ syncResult' = NoResult
    /\ UNCHANGED <<endpointCached, storage>>
    /\ UNCHANGED <<vars, dlVars, cfgVars, routeVars, factoryVars>>

\* updateEndpoint has resolved and the endpoint id is looked up again: with
\* none the call rejects with a validation error, else the messages are
\* requested
EndpointUpdated(created) ==
    /\ syncPc = "updating"
    /\ endpointCached' = created
    /\ IF created
       THEN /\ syncPc' = "fetching"
            /\ syncCalls' = [syncCalls EXCEPT !.getInAppMessages = 1]
            /\ UNCHANGED syncResult
       ELSE /\ syncPc' = "done"
            /\ syncResult' = Reject(InAppMessagingError("NoEndpointId"))
            /\ UNCHANGED syncCalls
    /\ UNCHANGED <<messages, storage>>
    /\ UNCHANGED <<vars, dlVars, cfgVars, routeVars, factoryVars>>

\* a variant that stores whatever was fetched, an empty list too
FetchResolves_AlwaysStore(list) ==
    /\ syncPc = "fetching"
    /\ messages' = list
    /\ syncPc' = "storing"
    /\ syncCalls' = [syncCalls EXCEPT !.setItem = 1]
    /\ UNCHANGED syncResult
    /\ UNCHANGED <<endpointCached, storage>>
    /\ UNCHANGED <<vars, dlVars, cfgVars, routeVars, factoryVars>>

\* getInAppMessages has resolved: an empty list ends the call, any other
\* list is handed to storage.setItem
FetchResolves(list) ==
    /\ syncPc = "fetching"
    /\ messages' = list
    /\ IF list = <<>>
       THEN /\ syncPc' = "done"
            /\ syncResult' = Resolve
            /\ UNCHANGED syncCalls
       ELSE /\ syncPc' = "storing"
            /\ syncCalls' = [syncCalls EXCEPT !.setItem = 1]
            /\ UNCHANGED syncResult
    /\ UNCHANGED <<endpointCached, storage>>
    /\ UNCHANGED <<vars, dlVars, cfgVars, routeVars, factoryVars>>

\* a variant that lets the failure of the fetch through as it came
FetchRejects_Unwrapped ==
    /\ syncPc = "fetching"
    /\ syncPc' = "done"
    /\ syncResult' = Reject([type |-> "Error", name |-> "Error"])
    /\ UNCHANGED <<endpointCached, messages, storage, syncCalls>>
    /\ UNCHANGED <<vars, dlVars, cfgVars, routeVars, factoryVars>>

\* getInAppMessages has rejected
FetchRejects ==
    /\ syncPc = "fetching"
    /\ syncPc' = "done"
    /\ syncResult' = Reject(InAppMessagingError("Unknown"))
    /\ UNCHANGED <<endpointCached, messages, storage, syncCalls>>
    /\ UNCHANGED <<vars, dlVars, cfgVars, routeVars, factoryVars>>

\* storage.setItem has resolved
StoreResolves ==
    /\ syncPc = "storing"
    /\ storage' = [present |-> TRUE, key |-> StorageKey,
                   value |-> JsonStringify(messages)]
    /\ syncPc' = "done"
    /\ syncResult' = Resolve
    /\ UNCHANGED <<endpointCached, messages, syncCalls>>
    /\ UNCHANGED <<vars, dlVars, cfgVars, routeVars, factoryVars>>

\* storage.setItem has rejected
StoreRejects ==
    /\ syncPc = "storing"
    /\ syncPc' = "done"
    /\ syncResult' = Reject(InAppMessagingError("Unknown"))
    /\ UNCHANGED <<endpointCached, messages, storage, syncCalls>>
    /\ UNCHANGED <<vars, dlVars, cfgVars, routeVars, factoryVars>>

SyncNext ==
    \/ SyncStart
    \/ \E created \in BOOLEAN : EndpointUpdated(created)
    \/ \E list \in CampaignLists : FetchResolves(list)
    \/ FetchRejects
    \/ StoreResolves
    \/ StoreRejects

SpecSync == Init /\ [][SyncNext]_allVars

\* C13: a call that resolved after a non-empty fetch has left in storage,
\* under a key containing STORAGE_KEY_SUFFIX, the JSON text of the fetched
\* list; and the messages are requested only with an endpoint id cached,
\* after the endpoint update when there was none.
C13_StoresFetchedMessages ==
    /\ (syncPc = "done" /\ syncResult = Resolve /\ messages # <<>>)
          => /\ storage.present
             /\ StringContaining(storage.key, "STORAGE_KEY_SUFFIX")
             /\ storage.value = JsonStringify(messages)
             /\ syncCalls.setItem = 1
    /\ syncCalls.getInAppMessages > 0 => endpointCached

\* resolved with two campaigns stored, the endpoint having been created first
C13_Witness ==
    /\ syncPc = "done" /\ syncResult = Resolve
    /\ syncCalls.updateEndpoint = 1
    /\ Len(messages) = 2
    /\ storage.present
    /\ storage.value = <<"[", messages[1], ",", messages[2], "]">>

\* C14: setItem is called only with a non-empty list fetched; a call that
\* fetched an empty list resolves without a setItem call and leaves the
\* storage as it was.
C14_EmptyListNotStored ==
    [][/\ syncCalls'.setItem > 0 => messages' # <<>>
       /\ (syncPc = "fetching" /\ syncPc' # "fetching" /\ messages' = <<>>
              /\ syncResult'.kind # "reject")
             => /\ syncPc' = "done"
                /\ syncResult' = Resolve
                /\ syncCalls'.setItem = 0
                /\ storage' = storage]_allVars

\* resolved on an empty list, with an earlier sync's messages still stored
C14_Witness ==
    /\ syncPc = "done" /\ syncResult = Resolve
    /\ syncCalls.getInAppMessages = 1
    /\ messages = <<>>
    /\ syncCalls.setItem = 0
    /\ storage.present

ObjectKeys == {<<"key">>, <<"album", "key">>}
ObjectPaths == {<<"path">>, <<"public", "key">>}
AccessLevels == {Undefined, "guest", "private", "protected"}
IdentityIds == {"defaultIdentityId", "otherIdentityId"}
TargetIdentityIds == {Undefined, "targetIdentityId", "otherTargetIdentityId"}

\* DownloadDataInput | DownloadDataWithPathInput; a path is given as a string
\* or as a function that returns one
DownloadInputs ==
    [kind : {"key"}, key : ObjectKeys, accessLevel : AccessLevels,
     targetIdentityId : TargetIdentityIds]
      \cup [kind : {"path"}, form : {"string", "function"}, path : ObjectPaths]

\* validateStorageOperationInput: the objectKey of a key input is the key, of
\* a path input the path, the function called when it is one
ObjectKey(input) ==
    IF input.kind = "key" THEN input.key ELSE input.path

\* a variant that resolves a protected key under the caller's own identity
KeyPrefix_OwnIdentity(input, identityId) ==
    IF input.accessLevel = "private" THEN <<"private", identityId>>
    ELSE IF input.accessLevel = "protected" THEN <<"protected", identityId>>
    ELSE <<"public">>

\* the prefix of a key input's access level
KeyPrefix(input, identityId) ==
    IF input.accessLevel = "private" THEN <<"private", identityId>>
    ELSE IF input.accessLevel = "protected"
         THEN <<"protected",
                IF input.targetIdentityId # Undefined
                THEN input.targetIdentityId ELSE identityId>>
    ELSE <<"public">>

\* the Key the object is requested under
FinalKey(input, identityId) ==
    IF input.kind = "key"
    THEN KeyPrefix(input, identityId) \o ObjectKey(input)
    ELSE ObjectKey(input)

\* the item the job resolves with
DownloadedItem(input) ==
    IF input.kind = "key"
    THEN [key |-> ObjectKey(input), body |-> "body"]
    ELSE [path |-> ObjectKey(input), body |-> "body"]

\* downloadData(input): the download task is created, its job not yet run
DownloadData(input) ==
    /\ dlPc \in {"idle", "done"}
    /\ dlPc' = "created"
    /\ dlInput' = input
    /\ dlIdentityId' = Undefined
    /\ getObjectInput' = [called |-> FALSE]
    /\ dlResult' = NoResult
    /\ UNCHANGED <<vars, syncVars, cfgVars, routeVars, factoryVars>>

\* the job runs: the session's identity id has been fetched, the input has
\* been validated and getObject is called
JobCallsGetObject(identityId) ==
    /\ dlPc = "created"
    /\ dlPc' = "getting"
    /\ dlIdentityId' = identityId
    /\ getObjectInput' = [called |-> TRUE, Bucket |-> "bucket",
                          Key |-> FinalKey(dlInput, identityId)]
    /\ UNCHANGED <<dlInput, dlResult>>
    /\ UNCHANGED <<vars, syncVars, cfgVars, routeVars, factoryVars>>

\* getObject has resolved
GetObjectResolves ==
    /\ dlPc = "getting"
    /\ dlPc' = "done"
    /\ dlResult' = Return(DownloadedItem(dlInput))
    /\ UNCHANGED <<dlInput, dlIdentityId, getObjectInput>>
    /\ UNCHANGED <<vars, syncVars, cfgVars, routeVars, factoryVars>>

DownloadNext ==
    \/ \E input \in DownloadInputs : DownloadData(input)
    \/ \E identityId \in IdentityIds : JobCallsGetObject(identityId)
    \/ GetObjectResolves

SpecDownload == Init /\ [][DownloadNext]_allVars

\* C16: the Key of the getObject call is public/<key> with no access level
\* or 'guest', private/<identity id>/<key> with 'private',
\* protected/<targetIdentityId, else identity id>/<key> with 'protected', and
\* the path itself for a path input; the item of a finished download carries
\* the caller's key or path.
C16_KeyResolvedFromAccessLevel ==
    /\ getObjectInput.called =>
         /\ (dlInput.kind = "key" /\ dlInput.accessLevel \in {Undefined, "guest"})
               => getObjectInput.Key = <<"public">> \o dlInput.key
         /\ (dlInput.kind = "key" /\ dlInput.accessLevel = "private")
               => getObjectInput.Key = <<"private", dlIdentityId>> \o dlInput.key
         /\ (dlInput.kind = "key" /\ dlInput.accessLevel = "protected"
                /\ dlInput.targetIdentityId # Undefined)
               => getObjectInput.Key
                    = <<"protected", dlInput.targetIdentityId>> \o dlInput.key
         /\ (dlInput.kind = "key" /\ dlInput.accessLevel = "protected"
                /\ dlInput.targetIdentityId = Undefined)
               => getObjectInput.Key = <<"protected", dlIdentityId>> \o dlInput.key
         /\ dlInput.kind = "path" => getObjectInput.Key = dlInput.path
    /\ dlPc = "done" =>
         /\ dlResult.kind = "return"
         /\ dlInput.kind = "key" => dlResult.value.key = dlInput.key
         /\ dlInput.kind = "path" => dlResult.value.path = dlInput.path

\* a protected download of another identity's object has finished: the Key is
\* under the target's identity and the item carries the bare key
C16_Witness ==
    /\ dlPc = "done"
    /\ dlInput.kind = "key"
    /\ dlInput.accessLevel = "protected"
    /\ dlInput.targetIdentityId = "targetIdentityId"
    /\ dlIdentityId = "defaultIdentityId"
    /\ getObjectInput.Key = <<"protected", "targetIdentityId", "key">>
    /\ dlResult.value.key = <<"key">>

\* ================================================= DefaultAmplify.configure
\* initSingleton.ts.  An Auth entry of library options is a record that says
\* whether the key is there: absent, there with the value undefined, or set
\* to a pair of providers.

TokenProviders == {"cognitoUserPoolsTokenProvider", "customTokenProvider"}
CredentialsProviders ==
    {"cognitoCredentialsProvider", "cookieCredentialsProvider",
     "customCredentialsProvider"}

AbsentAuth == [key |-> "absent"]
UndefinedAuth == [key |-> "undefined"]
AuthOptions(tp, cp) ==
    [key |-> "set", tokenProvider |-> tp, credentialsProvider |-> cp]

AuthEntries ==
    {AbsentAuth, UndefinedAuth}
      \cup {AuthOptions(tp, cp) : tp \in TokenProviders,
                                  cp \in CredentialsProviders}

SsrValues == {Undefined, "false", "true"}

\* the libraryOptions argument: left out, or an object
NoLibraryOptions == [given |-> FALSE]
LibraryOptionsInputs ==
    {NoLibraryOptions} \cup [given : {TRUE}, Auth : AuthEntries, ssr : SsrValues]

\* the resourceConfig argument, in one of the formats parseAmplifyConfig takes
AuthConfigs == {Undefined, "userPoolA", "userPoolB"}
ResourceConfigInputs == [format : {"resources", "legacy"}, Auth : AuthConfigs]

\* parseAmplifyConfig: a ResourcesConfig whatever the format given
ParseAmplifyConfig(resourceConfig) == [Auth |-> resourceConfig.Auth]

\* libraryOptions?.ssr and libraryOptions?.Auth taken as conditions
SsrTruthy(lo) == lo.given /\ lo.ssr = "true"
AuthTruthy(entry) == entry.key = "set"

ResolvedKeyValueStorage(lo) ==
    IF SsrTruthy(lo) THEN "cookieStorage" ELSE "defaultStorage"

ResolvedCredentialsProvider(lo) ==
    IF SsrTruthy(lo) THEN "cookieCredentialsProvider"
    ELSE "cognitoCredentialsProvider"

\* a variant that keeps the configured Auth options whatever ssr is
PreservedAuthOptions_Untouched(lo, current) == current

\* lines 89-98: the currently configured Auth options, their credentials
\* provider replaced when ssr is given
PreservedAuthOptions(lo, current) ==
    IF lo.ssr # Undefined
    THEN [current EXCEPT !.credentialsProvider = ResolvedCredentialsProvider(lo)]
    ELSE current

\* { Auth: authLibraryOptions, ...libraryOptions }: an Auth key of the given
\* options, undefined or not, comes after and wins
SpreadOverAuth(authLibraryOptions, lo) ==
    [given |-> TRUE,
     Auth |-> IF lo.Auth.key = "absent" THEN authLibraryOptions ELSE lo.Auth,
     ssr |-> lo.ssr]

\* a variant that adds the default providers over configured ones
ConfigureBranch_DefaultsAgain(rc, lo, current) ==
    IF rc.Auth = Undefined THEN "asIsNoAuthConfig"
    ELSE IF lo.given /\ AuthTruthy(lo.Auth) THEN "asIsAuthOptions"
    ELSE "defaults"

\* which return of configure a call takes
ConfigureBranch(rc, lo, current) ==
    IF rc.Auth = Undefined THEN "asIsNoAuthConfig"
    ELSE IF lo.given /\ AuthTruthy(lo.Auth) THEN "asIsAuthOptions"
    ELSE IF ~AuthTruthy(current.Auth) THEN "defaults"
    ELSE IF lo.given THEN "preserve"
    ELSE "untouched"

\* a variant that hands the configured options to the core when none is given
CoreArguments_ResendCurrent(rc, lo, current) ==
    [resourcesConfig |-> rc,
     libraryOptions |->
        CASE ConfigureBranch(rc, lo, current)
               \in {"asIsNoAuthConfig", "asIsAuthOptions"} -> lo
          [] ConfigureBranch(rc, lo, current) = "defaults" ->
               [given |-> TRUE,
                Auth |-> AuthOptions("cognitoUserPoolsTokenProvider",
                                     ResolvedCredentialsProvider(lo)),
                ssr |-> IF lo.given THEN lo.ssr ELSE Undefined]
          [] ConfigureBranch(rc, lo, current) = "preserve" ->
               SpreadOverAuth(PreservedAuthOptions(lo, current.Auth), lo)
          [] OTHER -> [given |-> TRUE, Auth |-> current.Auth, ssr |-> Undefined]]

\* the arguments of the one Amplify.configure call a call makes
CoreArguments(rc, lo, current) ==
    [resourcesConfig |-> rc,
     libraryOptions |->
        CASE ConfigureBranch(rc, lo, current)
               \in {"asIsNoAuthConfig", "asIsAuthOptions"} -> lo
          [] ConfigureBranch(rc, lo, current) = "defaults" ->
               [given |-> TRUE,
                Auth |-> AuthOptions("cognitoUserPoolsTokenProvider",
                                     ResolvedCredentialsProvider(lo)),
                ssr |-> IF lo.given THEN lo.ssr ELSE Undefined]
          [] ConfigureBranch(rc, lo, current) = "preserve" ->
               SpreadOverAuth(PreservedAuthOptions(lo, current.Auth), lo)
          [] OTHER -> NoLibraryOptions]

\* a variant that sets the token provider's storage on every call
TokenProviderCalls_AlwaysStorage(rc, lo, current) ==
    [setAuthConfig |-> ConfigureBranch(rc, lo, current) = "defaults",
     setKeyValueStorage |-> TRUE]

\* which setters of cognitoUserPoolsTokenProvider a call calls
TokenProviderCalls(rc, lo, current) ==
    [setAuthConfig |-> ConfigureBranch(rc, lo, current) = "defaults",
     setKeyValueStorage |->
        \/ ConfigureBranch(rc, lo, current) = "defaults"
        \/ /\ ConfigureBranch(rc, lo, current) = "preserve"
           /\ lo.ssr # Undefined]

\* the core's configure: the resource config is replaced, the library
\* options are replaced when some are given
CoreLibraryOptions(args, current) ==
    IF args.libraryOptions.given
    THEN [Auth |-> args.libraryOptions.Auth, ssr |-> args.libraryOptions.ssr]
    ELSE current

\* DefaultAmplify.configure(resourceConfig, libraryOptions)
Configure(resourceConfig, lo) ==
    LET rc == ParseAmplifyConfig(resourceConfig)
        args == CoreArguments(rc, lo, libraryOptions)
        calls == TokenProviderCalls(rc, lo, libraryOptions)
    IN /\ tokenProvider' =
            [authConfig |-> IF calls.setAuthConfig THEN rc.Auth
                            ELSE tokenProvider.authConfig,
             keyValueStorage |-> IF calls.setKeyValueStorage
                                 THEN ResolvedKeyValueStorage(lo)
                                 ELSE tokenProvider.keyValueStorage]
       /\ resourcesConfig' = args.resourcesConfig
       /\ libraryOptions' = CoreLibraryOptions(args, libraryOptions)
       /\ lastConfigure' =
            [called |-> TRUE,
             resourceConfig |-> resourceConfig,
             libraryOptions |-> lo,
             authBefore |-> libraryOptions.Auth,
             core |-> args,
             calls |-> calls]
       /\ UNCHANGED <<vars, syncVars, dlVars, routeVars, factoryVars>>

ConfigureNext ==
    \E resourceConfig \in ResourceConfigInputs, lo \in LibraryOptionsInputs :
        Configure(resourceConfig, lo)

SpecConfigure == Init /\ [][ConfigureNext]_allVars

\* the latest call was given library options without an Auth key and an Auth
\* resource config, with Auth library options configured before it
PreserveCase ==
    /\ lastConfigure.called
    /\ lastConfigure.libraryOptions.given
    /\ lastConfigure.libraryOptions.Auth.key = "absent"
    /\ lastConfigure.resourceConfig.Auth # Undefined
    /\ AuthTruthy(lastConfigure.authBefore)

\* C17 as stated: in that case the Auth options handed to the core are the
\* ones configured before, token provider and credentials provider alike,
\* whatever ssr is.
C17_AuthOptionsPreservedForEverySsr ==
    PreserveCase
        => lastConfigure.core.libraryOptions.Auth = lastConfigure.authBefore

\* C17: in that case the token provider handed to the core is the one
\* configured before; the credentials provider is the one configured before
\* when ssr is undefined, and with ssr given it is the cookie-based provider
\* for true and cognitoCredentialsProvider for false, the token provider's
\* storage being set again as well.
C17_AuthOptionsPreservedUnlessSsrGiven ==
    PreserveCase
        => LET lo == lastConfigure.libraryOptions
               passed == lastConfigure.core.libraryOptions.Auth
               before == lastConfigure.authBefore
           IN /\ passed.key = "set"
              /\ passed.tokenProvider = before.tokenProvider
              /\ lo.ssr = Undefined
                    => /\ passed.credentialsProvider = before.credentialsProvider
                       /\ ~lastConfigure.calls.setKeyValueStorage
              /\ lo.ssr = "true"
                    => /\ passed.credentialsProvider = "cookieCredentialsProvider"
                       /\ tokenProvider.keyValueStorage = "cookieStorage"
              /\ lo.ssr = "false"
                    => /\ passed.credentialsProvider = "cognitoCredentialsProvider"
                       /\ tokenProvider.keyValueStorage = "defaultStorage"
              /\ ~lastConfigure.calls.setAuthConfig
              /\ libraryOptions.Auth = passed

\* custom providers were configured, then ssr: false was given on its own: the
\* custom token provider is still there, the custom credentials provider not
C17_Witness ==
    /\ PreserveCase
    /\ lastConfigure.libraryOptions.ssr = "false"
    /\ lastConfigure.authBefore
         = AuthOptions("customTokenProvider", "customCredentialsProvider")
    /\ libraryOptions.Auth
         = AuthOptions("customTokenProvider", "cognitoCredentialsProvider")

\* C18: a call with an Auth resource config and no library options, made
\* with Auth library options configured, hands the core the resource config
\* alone and leaves the library options and the token provider as they were.
C18_NoOptionsLeavesOptionsUntouched ==
    [][(/\ lastConfigure'.called
        /\ ~lastConfigure'.libraryOptions.given
        /\ lastConfigure'.resourceConfig.Auth # Undefined
        /\ AuthTruthy(libraryOptions.Auth))
          => /\ lastConfigure'.core.libraryOptions = NoLibraryOptions
             /\ lastConfigure'.core.resourcesConfig
                  = ParseAmplifyConfig(lastConfigure'.resourceConfig)
             /\ resourcesConfig' = lastConfigure'.core.resourcesConfig
             /\ libraryOptions' = libraryOptions
             /\ tokenProvider' = tokenProvider]_allVars

\* another user pool was configured with no options after the defaults had
\* been added with ssr on: options and token provider are those of before
C18_Witness ==
    /\ lastConfigure.called
    /\ ~lastConfigure.libraryOptions.given
    /\ lastConfigure.resourceConfig.Auth = "userPoolB"
    /\ resourcesConfig.Auth = "userPoolB"
    /\ tokenProvider = [authConfig |-> "userPoolA",
                        keyValueStorage |-> "cookieStorage"]
    /\ libraryOptions
         = [Auth |-> AuthOptions("cognitoUserPoolsTokenProvider",
                                 "cookieCredentialsProvider"),
            ssr |-> "true"]

\* the latest call had an Auth resource config and no Auth library options,
\* and no Auth library options were configured before it
DefaultsCase ==
    /\ lastConfigure.called
    /\ lastConfigure.resourceConfig.Auth # Undefined
    /\ ~(lastConfigure.libraryOptions.given
           /\ AuthTruthy(lastConfigure.libraryOptions.Auth))
    /\ ~AuthTruthy(lastConfigure.authBefore)

\* C19: the default providers are set up exactly in that case, the token
\* provider then having the resource config's Auth and the cookie storage
\* with ssr truthy, the default storage otherwise; a call without an Auth
\* resource config or with Auth library options hands its arguments to the
\* core as they are and calls nothing on the token provider.
C19_DefaultProvidersExactlyWhenNoneConfigured ==
    lastConfigure.called
        => LET lo == lastConfigure.libraryOptions
               rc == lastConfigure.resourceConfig
               core == lastConfigure.core
           IN /\ lastConfigure.calls.setAuthConfig <=> DefaultsCase
              /\ DefaultsCase
                   => /\ core.libraryOptions.given
                      /\ core.libraryOptions.Auth
                           = AuthOptions("cognitoUserPoolsTokenProvider",
                                         IF lo.given /\ lo.ssr = "true"
                                         THEN "cookieCredentialsProvider"
                                         ELSE "cognitoCredentialsProvider")
                      /\ libraryOptions.Auth = core.libraryOptions.Auth
                      /\ tokenProvider.authConfig = rc.Auth
                      /\ tokenProvider.keyValueStorage
                           = IF lo.given /\ lo.ssr = "true"
                             THEN "cookieStorage" ELSE "defaultStorage"
              /\ (rc.Auth = Undefined \/ (lo.given /\ AuthTruthy(lo.Auth)))
                   => /\ core.libraryOptions = lo
                      /\ core.resourcesConfig = [Auth |-> rc.Auth]
                      /\ ~lastConfigure.calls.setAuthConfig
                      /\ ~lastConfigure.calls.setKeyValueStorage

\* a first configure with ssr on: defaults added over the cookie storage
C19_Witness ==
    /\ DefaultsCase
    /\ lastConfigure.authBefore = AbsentAuth
    /\ lastConfigure.libraryOptions.given
    /\ lastConfigure.libraryOptions.ssr = "true"
    /\ tokenProvider = [authConfig |-> "userPoolA",
                        keyValueStorage |-> "cookieStorage"]
    /\ libraryOptions.Auth
         = AuthOptions("cognitoUserPoolsTokenProvider",
                       "cookieCredentialsProvider")

\* ================================================= handleRequest
\* createAuthRouteHandlersFactory.ts.  A request and a context or response
\* are known by what they are; the type guards of ./utils tell just that.

RequestKinds == {"NextApiRequest", "NextRequest", "other"}
ContextOrResponseKinds == {"NextApiResponse", "AuthRoutesHandlerContext", "other"}
RouteResponses == {"Response302", "Response405"}

isNextApiRequest(request) == request = "NextApiRequest"
isNextApiResponse(contextOrResponse) == contextOrResponse = "NextApiResponse"
isNextRequest(request) == request = "NextRequest"
isAuthRoutesHandlersContext(contextOrResponse) ==
    contextOrResponse = "AuthRoutesHandlerContext"

InvalidCombinationError ==
    [type |-> "Error",
     message |-> "Invalid request and context/response combination"]
RouterHandlerError == [type |-> "Error", message |-> "router handler failed"]

\* a variant that hands what is not a Pages Router pair to the App Router
HandleRequest_FallThrough(r, request, contextOrResponse) ==
    /\ routePc[r] \in {"idle", "done"}
    /\ routeArgs' = [routeArgs EXCEPT ![r] =
                        [request |-> request,
                         contextOrResponse |-> contextOrResponse]]
    /\ routeResult' = [routeResult EXCEPT ![r] = NoResult]
    /\ IF isNextApiRequest(request) /\ isNextApiResponse(contextOrResponse)
       THEN /\ routePc' = [routePc EXCEPT ![r] = "pagesRouter"]
            /\ routeInvoked' = [routeInvoked EXCEPT ![r] = {"pagesRouter"}]
       ELSE /\ routePc' = [routePc EXCEPT ![r] = "appRouter"]
            /\ routeInvoked' = [routeInvoked EXCEPT ![r] = {"appRouter"}]
    /\ UNCHANGED <<vars, syncVars, dlVars, cfgVars, factoryVars>>

\* handleRequest up to its first await or its end
HandleRequest(r, request, contextOrResponse) ==
    /\ routePc[r] \in {"idle", "done"}
    /\ routeArgs' = [routeArgs EXCEPT ![r] =
                        [request |-> request,
                         contextOrResponse |-> contextOrResponse]]
    /\ IF isNextApiRequest(request) /\ isNextApiResponse(contextOrResponse)
       THEN /\ routePc' = [routePc EXCEPT ![r] = "pagesRouter"]
            /\ routeInvoked' = [routeInvoked EXCEPT ![r] = {"pagesRouter"}]
            /\ routeResult' = [routeResult EXCEPT ![r] = NoResult]
       ELSE IF isNextRequest(request)
                 /\ isAuthRoutesHandlersContext(contextOrResponse)
       THEN /\ routePc' = [routePc EXCEPT ![r] = "appRouter"]
            /\ routeInvoked' = [routeInvoked EXCEPT ![r] = {"appRouter"}]
            /\ routeResult' = [routeResult EXCEPT ![r] = NoResult]
       ELSE /\ routePc' = [routePc EXCEPT ![r] = "done"]
            /\ routeInvoked' = [routeInvoked EXCEPT ![r] = {}]
            /\ routeResult' = [routeResult EXCEPT ![r] =
                                  Throw(InvalidCombinationError)]
    /\ UNCHANGED <<vars, syncVars, dlVars, cfgVars, factoryVars>>

\* the awaited handleAuthApiRouteRequestForPagesRouter has resolved
PagesRouterResolves(r) ==
    /\ routePc[r] = "pagesRouter"
    /\ routePc' = [routePc EXCEPT ![r] = "done"]
    /\ routeResult' = [routeResult EXCEPT ![r] = Return(Undefined)]
    /\ UNCHANGED <<routeArgs, routeInvoked>>
    /\ UNCHANGED <<vars, syncVars, dlVars, cfgVars, factoryVars>>

\* it has rejected
PagesRouterRejects(r) ==
    /\ routePc[r] = "pagesRouter"
    /\ routePc' = [routePc EXCEPT ![r] = "done"]
    /\ routeResult' = [routeResult EXCEPT ![r] = Throw(RouterHandlerError)]
    /\ UNCHANGED <<routeArgs, routeInvoked>>
    /\ UNCHANGED <<vars, syncVars, dlVars, cfgVars, factoryVars>>

\* the returned handleAuthApiRouteRequestForAppRouter has resolved
AppRouterResolves(r, response) ==
    /\ routePc[r] = "appRouter"
    /\ routePc' = [routePc EXCEPT ![r] = "done"]
    /\ routeResult' = [routeResult EXCEPT ![r] = Return(response)]
    /\ UNCHANGED <<routeArgs, routeInvoked>>
    /\ UNCHANGED <<vars, syncVars, dlVars, cfgVars, factoryVars>>

\* it has rejected
AppRouterRejects(r) ==
    /\ routePc[r] = "appRouter"
    /\ routePc' = [routePc EXCEPT ![r] = "done"]
    /\ routeResult' = [routeResult EXCEPT ![r] = Throw(RouterHandlerError)]
    /\ UNCHANGED <<routeArgs, routeInvoked>>
    /\ UNCHANGED <<vars, syncVars, dlVars, cfgVars, factoryVars>>

RouteNext ==
    \E r \in Requests :
        \/ \E request \in RequestKinds,
              contextOrResponse \in ContextOrResponseKinds :
                HandleRequest(r, request, contextOrResponse)
        \/ PagesRouterResolves(r)
        \/ PagesRouterRejects(r)
        \/ \E response \in RouteResponses : AppRouterResolves(r, response)
        \/ AppRouterRejects(r)

SpecRoute == Init /\ [][RouteNext]_allVars

\* C20: a request has at most one router handler invoked for it. A Pages
\* Router pair has the Pages Router handler invoked, is not settled before
\* that handler is, and resolves with undefined; an App Router pair has the
\* App Router handler invoked and resolves with that handler's Response; any
\* other pair is rejected with no handler invoked.
C20_DispatchedToExactlyOneOrRejected ==
    \A r \in Requests :
        routePc[r] # "idle" =>
          LET request == routeArgs[r].request
              contextOrResponse == routeArgs[r].contextOrResponse
              pagesPair == request = "NextApiRequest"
                             /\ contextOrResponse = "NextApiResponse"
              appPair == request = "NextRequest"
                           /\ contextOrResponse = "AuthRoutesHandlerContext"
          IN /\ Cardinality(routeInvoked[r]) <= 1
             /\ pagesPair
                  => /\ routeInvoked[r] = {"pagesRouter"}
                     /\ routePc[r] \in {"pagesRouter", "done"}
                     /\ routePc[r] = "pagesRouter" => routeResult[r] = NoResult
                     /\ routePc[r] = "done"
                          => routeResult[r] \in {Return(Undefined),
                                                 Throw(RouterHandlerError)}
             /\ appPair
                  => /\ routeInvoked[r] = {"appRouter"}
                     /\ routePc[r] \in {"appRouter", "done"}
                     /\ routePc[r] = "appRouter" => routeResult[r] = NoResult
                     /\ routePc[r] = "done"
                          => routeResult[r]
                               \in {Return(response) : response \in RouteResponses}
                                     \cup {Throw(RouterHandlerError)}
             /\ (~pagesPair /\ ~appPair)
                  => /\ routeInvoked[r] = {}
                     /\ routePc[r] = "done"
                     /\ routeResult[r] = Throw(InvalidCombinationError)

\* one request went through the Pages Router and resolved with undefined,
\* another, an App Router request with a Pages Router response, was rejected
C20_Witness ==
    \E r, q \in Requests :
        /\ routePc[r] = "done"
        /\ routeInvoked[r] = {"pagesRouter"}
        /\ routeResult[r] = Return(Undefined)
        /\ routePc[q] = "done"
        /\ routeArgs[q] = [request |-> "NextRequest",
                           contextOrResponse |-> "NextApiResponse"]
        /\ routeInvoked[q] = {}
        /\ routeResult[q] = Throw(InvalidCombinationError)

\* ================================================= createAuthRouteHandlersFactory
\* createAuthRouteHandlersFactory.ts, lines 28-59 and 109-112.  The text of
\* an origin is the sequence of its parts; an empty sequence is the empty
\* string.

OriginTexts ==
    {<<>>,
     <<"example.com">>,
     <<"https", "://">>,
     <<"https", "://", "example.com">>,
     <<"http", "://", "localhost", ":", "3000">>}

\* process.env.AMPLIFY_APP_ORIGIN: not set, or a string
EnvValues == {[set |-> FALSE]} \cup [set : {TRUE}, text : OriginTexts]

\* the config argument: no Auth.Cognito, or one with or without the user
\* pool ids and with or without loginWith.oauth
FactoryConfigs ==
    {[cognito |-> FALSE]}
      \cup [cognito : {TRUE}, userPoolIds : BOOLEAN, oauth : BOOLEAN]

\* isValidOrigin: a scheme of http or https, "://", and a host
isValidOrigin(text) ==
    /\ Len(text) >= 3
    /\ text[1] \in {"http", "https"}
    /\ text[2] = "://"

\* assertTokenProviderConfig and assertOAuthConfig pass
TokenProviderConfigOk(config) == config.cognito /\ config.userPoolIds
OAuthConfigOk(config) == config.cognito /\ config.oauth

AmplifyServerContextError(message) ==
    [type |-> "AmplifyServerContextError", message |-> message]
AuthConfigError(name) == [type |-> "AuthError", name |-> name]

\* the function the factory returns, bound to the origin it read
HandlerFactory(text) == [handlerFactory |-> TRUE, origin |-> text]

\* a variant that asserts the config before it looks at the origin
FactoryOutcome_AssertFirst(origin, config) ==
    IF ~TokenProviderConfigOk(config)
    THEN Throw(AuthConfigError("AuthUserPoolException"))
    ELSE IF ~OAuthConfigOk(config)
    THEN Throw(AuthConfigError("OAuthNotConfigureException"))
    ELSE IF ~origin.set \/ origin.text = <<>>
    THEN Throw(AmplifyServerContextError("Could not find AMPLIFY_APP_ORIGIN"))
    ELSE IF ~isValidOrigin(origin.text)
    THEN Throw(AmplifyServerContextError("invalid origin string"))
    ELSE Return(HandlerFactory(origin.text))

\* lines 33-59 and 109: what a call of createAuthRouteHandlersFactory
\* returns or throws
FactoryOutcome(origin, config) ==
    IF ~origin.set \/ origin.text = <<>>
    THEN Throw(AmplifyServerContextError("Could not find AMPLIFY_APP_ORIGIN"))
    ELSE IF ~isValidOrigin(origin.text)
    THEN Throw(AmplifyServerContextError("invalid origin string"))
    ELSE IF ~TokenProviderConfigOk(config)
    THEN Throw(AuthConfigError("AuthUserPoolException"))
    ELSE IF ~OAuthConfigOk(config)
    THEN Throw(AuthConfigError("OAuthNotConfigureException"))
    ELSE Return(HandlerFactory(origin.text))

\* the environment of the process is set up or changed
SetAppOrigin(value) ==
    /\ appOrigin' = value
    /\ UNCHANGED <<factoryArgs, factoryResult>>
    /\ UNCHANGED <<vars, syncVars, dlVars, cfgVars, routeVars>>

\* createAuthRouteHandlersFactory({ config, ... })
CreateAuthRouteHandlersFactory(f, config) ==
    /\ factoryArgs' = [factoryArgs EXCEPT ![f] =
                          [called |-> TRUE, origin |-> appOrigin,
                           config |-> config]]
    /\ factoryResult' = [factoryResult EXCEPT ![f] =
                            FactoryOutcome(appOrigin, config)]
    /\ UNCHANGED appOrigin
    /\ UNCHANGED <<vars, syncVars, dlVars, cfgVars, routeVars>>

FactoryNext ==
    \/ \E value \in EnvValues : SetAppOrigin(value)
    \/ \E f \in Factories, config \in FactoryConfigs :
          CreateAuthRouteHandlersFactory(f, config)

SpecFactory == Init /\ [][FactoryNext]_allVars

\* the origin a call read is unset, empty or not a valid origin string
BadOrigin(f) ==
    \/ ~factoryArgs[f].origin.set
    \/ factoryArgs[f].origin.text = <<>>
    \/ ~isValidOrigin(factoryArgs[f].origin.text)

\* the config a call was given fails one of the two assertions
BadConfig(f) ==
    \/ ~TokenProviderConfigOk(factoryArgs[f].config)
    \/ ~OAuthConfigOk(factoryArgs[f].config)

\* C21: a call that read an unset, empty or invalid origin threw an
\* AmplifyServerContextError and returned no handler factory, whatever its
\* config, a config failing the assertions included; the assertions' errors
\* are raised only with a good origin.
C21_OriginErrorComesFirst ==
    \A f \in Factories :
        factoryArgs[f].called =>
          /\ BadOrigin(f)
               => /\ factoryResult[f].kind = "throw"
                  /\ factoryResult[f].error.type = "AmplifyServerContextError"
          /\ (factoryResult[f].kind = "throw"
                /\ factoryResult[f].error.type = "AuthError")
               => ~BadOrigin(f) /\ BadConfig(f)
          /\ factoryResult[f].kind = "return"
               => ~BadOrigin(f) /\ ~BadConfig(f)

\* an invalid origin together with a config without Cognito: the origin
\* error was raised; another call, origin unset and config good, failed too
C21_Witness ==
    \E f, g \in Factories :
        /\ factoryArgs[f].called /\ factoryArgs[g].called
        /\ factoryArgs[f].origin = [set |-> TRUE, text |-> <<"example.com">>]
        /\ factoryArgs[f].config = [cognito |-> FALSE]
        /\ factoryResult[f].kind = "throw"
        /\ factoryResult[f].error.type = "AmplifyServerContextError"
        /\ factoryArgs[g].origin = [set |-> FALSE]
        /\ factoryArgs[g].config
             = [cognito |-> TRUE, userPoolIds |-> TRUE, oauth |-> TRUE]
        /\ factoryResult[g].kind = "throw"
        /\ factoryResult[g].error.type = "AmplifyServerContextError"

====
